---- MODULE Spec2Model ----
(***************************************************************************)
(* arcaneflow: the schema-state graph optimizer (CayleyGraphOptimizer) and *)
(* the pipeline execution engine (Pipeline.execute).                       *)
(*                                                                         *)
(* Spec      the optimizer applied to a pipeline, and again to its result  *)
(* SpecExec  Pipeline.execute, statement by statement, for each run        *)
(* SpecBuild the builders and the Pipeline objects they and the optimizer   *)
(*           create, as objects that hold references to list objects       *)
(* SpecGraph graph building on its own: build_transformation_graph and     *)
(*           TransformationGraphBuilder.build_graph, repeated, over one     *)
(*           SchemaStateManager, under several hash functions               *)
(* SpecReuse one optimizer and one graph builder handed pipeline after      *)
(*           pipeline, with and without signatures                          *)
(* SpecNodes single operations: ColumnRenamer.execute,                      *)
(*           SQLAlchemySink.execute, calculate_next_state                   *)
(***************************************************************************)
EXTENDS Integers, Sequences, FiniteSets, TLC

VARIABLES
    pipeline,             \* the Pipeline handed to the latest optimize_pipeline or graph build call
    graph,                \* CayleyGraphOptimizer.graph (nx.DiGraph)
    schema_to_node_name,  \* CayleyGraphOptimizer.schema_to_node_name
    redundant_nodes,      \* the redundant set of the latest optimize_pipeline call
    optimized,            \* the Pipeline the latest call returned, <<>> before any call
    calls,                \* optimize_pipeline calls made on this optimizer
    hashfn,               \* the process's hash() on frozensets of column names
    raised,               \* the exception the latest optimizer or graph builder call raised, "" when it returned
    handed,               \* the calls that were handed a pipeline so far, in order: the callee and the pipeline
    session,              \* per run: the session argument of execute (0: None, r: the session of run r)
    plan,                 \* per run: the pipeline executed, as [steps, sink]: how many steps, whether a sink
    pc,                   \* per run: the statement of execute the run is at
    ctx_session,          \* per run: context._session (0: None, r: the session of run r)
    executed,             \* per run: the stages whose execute was called, in order
    rollbacks,            \* per session: the calls of session.rollback()
    attaches,             \* per run: the times with_session set context._session
    detaches,             \* per run: the times with_session's finally cleared context._session
    exc,                  \* per run: the exception in flight, <<>> when none
    outcome,              \* per run: what the caller of execute observes, <<>> while it runs
    heap,                 \* the list objects and the Pipeline objects created so far
    builder,              \* the fields of one PipelineBuilder or OptimizingPipelineBuilder
    builds,               \* the build() calls made on the builder, with what each returned
    optimizations,        \* the optimize_pipeline calls made on Pipeline objects of the heap
    tgb_graph,            \* TransformationGraphBuilder.graph (nx.DiGraph)
    manager,              \* SchemaStateManager.schema_to_node_name
    issued,               \* the get_or_create_node calls made directly on the manager
    built,                \* the graph builds made, with the graph each one left
    invoked,              \* the latest call of a node's or the manager's operation: the operation and its arguments, op "none" before any
    returned              \* what that call left: the exception raised ("" when none), the data, the metadata, the inserts issued

optvars == <<pipeline, graph, schema_to_node_name, redundant_nodes, optimized, calls, hashfn,
             raised, handed>>
execvars == <<session, plan, pc, ctx_session, executed, rollbacks, attaches, detaches, exc, outcome>>
buildvars == <<heap, builder, builds, optimizations>>
graphvars == <<tgb_graph, manager, issued, built>>
nodevars == <<invoked, returned>>
vars == <<optvars, execvars, buildvars, graphvars, nodevars>>

-----------------------------------------------------------------------------
(* Bounds of the model. *)

\* the longest steps list of an input pipeline
MaxSteps == 3
\* optimize_pipeline calls made in a row on one optimizer
MaxCalls == 2

\* the column names that occur in signatures
Cols == {"a", "b"}

-----------------------------------------------------------------------------
(* Nodes, signatures, pipelines. *)

\* A node's kind says what node.get_transformation_signature is: absent
\* ("no_attribute"), the inherited ETLNode method, which raises
\* NotImplementedError ("not_implemented"), or an override returning a
\* signature ("declared").

\* TransformationSignature: the two schema fields the optimizer reads
EmptySignature == [input_schema |-> {}, output_schema |-> {}]

\* a node's configuration: everything of it but its id
Unsigned(kind) == [kind |-> kind, signature |-> EmptySignature]

Declared(input_schema, output_schema) ==
    [kind |-> "declared",
     signature |-> [input_schema |-> input_schema, output_schema |-> output_schema]]

\* the steps of the input pipelines: without a signature (of either kind), or
\* with a signature that adds, drops, keeps (input = output) or renames a column
StepConfigs ==
    {Unsigned("no_attribute"), Unsigned("not_implemented"),
     Declared({}, {"a"}), Declared({}, {"b"}),
     Declared({"a"}, {}), Declared({"b"}, {}),
     Declared({"a"}, {"a"}),
     Declared({"a"}, {"b"}), Declared({"b"}, {"a"})}

\* the sources of the input pipelines: one without a signature (as CSVSource),
\* one whose signature leaves the empty schema unchanged, one that emits column a
SourceConfigs == {Unsigned("not_implemented"), Declared({}, {}), Declared({}, {"a"})}

\* the sinks of the input pipelines: one without a signature (as PrintSink and
\* SQLAlchemySink), one that consumes column a
SinkConfigs == {Unsigned("not_implemented"), Declared({"a"}, {})}

\* PythonHash: an injective hash of the frozensets over Cols
PythonHash == [s \in SUBSET Cols |->
                 (IF "a" \in s THEN 1 ELSE 0) + (IF "b" \in s THEN 2 ELSE 0)]

\* How the nodes of one pipeline get their node_id:
\*   unique     every node of the pipeline has its own id (its position)
\*   by_config  the id is derived from the node's configuration, as
\*              ColumnRenamer (hash of the mapping), PrintSink (a constant),
\*              CSVSource and SQLAlchemySink (the path, the table) do
IdSchemes == {"unique", "by_config"}

ConfigCode(c) ==
    CASE c.kind = "no_attribute" -> 0
      [] c.kind = "not_implemented" -> 1
      [] OTHER -> 2 + 4 * PythonHash[c.signature.input_schema]
                    + PythonHash[c.signature.output_schema]

NodeIdOf(scheme, pos, c) ==
    IF scheme = "unique" THEN pos ELSE 10 + ConfigCode(c)

MakeNode(scheme, pos, c) ==
    [node_id |-> NodeIdOf(scheme, pos, c), kind |-> c.kind, signature |-> c.signature]

StepConfigLists == UNION {[1..n -> StepConfigs] : n \in 0..MaxSteps}

Optional(S) == {<<>>} \cup {<<x>> : x \in S}

\* Pipeline(source, nodes, sink) with a source, and a sink or None (<<>>),
\* its nodes' ids given by one scheme
MakePipeline(sch, src, cs, snk) ==
    [source |-> <<MakeNode(sch, 0, src)>>,
     nodes  |-> [i \in 1..Len(cs) |-> MakeNode(sch, i, cs[i])],
     sink   |-> IF snk = <<>> THEN <<>> ELSE <<MakeNode(sch, Len(cs) + 1, snk[1])>>]

-----------------------------------------------------------------------------
(* The graph: nx.DiGraph as the optimizer uses it.  A node is a name with a *)
(* "schema" attribute; there is at most one edge per ordered pair of names, *)
(* and adding an edge that exists replaces its attributes.                  *)

EmptyGraph == [nodes |-> {}, edges |-> {}]

\* f"schema_{hash(schema)}"
NodeName(schema) == <<"schema", hashfn[schema]>>

\* graph.add_node(name, schema=schema)
AddNode(g, name, schema) ==
    [g EXCEPT !.nodes = {n \in g.nodes : n.name # name}
                        \cup {[name |-> name, schema |-> schema]}]

\* AddEdge leaving an edge that exists as it is
AddEdgeKeepingFirst(g, u, v, node_id, signature) ==
    IF \E e \in g.edges : e.u = u /\ e.v = v THEN g
    ELSE [g EXCEPT !.edges = @ \cup {[u |-> u, v |-> v, node_id |-> node_id,
                                      signature |-> signature]}]

\* graph.add_edge(u, v, node_id=node_id, signature=signature)
AddEdge(g, u, v, node_id, signature) ==
    [g EXCEPT !.edges = {e \in g.edges : ~(e.u = u /\ e.v = v)}
                        \cup {[u |-> u, v |-> v, node_id |-> node_id,
                               signature |-> signature]}]

\* graph.nodes[name]["schema"]
SchemaOf(g, name) == (CHOOSE n \in g.nodes : n.name = name).schema

\* graph.get_edge_data(u, v): the edge's attributes, or None (<<>>)
GetEdgeData(g, u, v) ==
    IF \E e \in g.edges : e.u = u /\ e.v = v
    THEN <<CHOOSE e \in g.edges : e.u = u /\ e.v = v>>
    ELSE <<>>

-----------------------------------------------------------------------------
(* CayleyGraphOptimizer: building the graph. *)

\* _collect_pipeline_nodes
CollectPipelineNodes(p) == p.source \o p.nodes \o p.sink

\* GetNodeSignature with the inherited method returning an empty signature
\* instead of raising NotImplementedError
GetNodeSignatureDefaulting(node) ==
    IF node.kind = "no_attribute" THEN <<>> ELSE <<node.signature>>

\* _get_node_signature: the signature, or None (<<>>)
GetNodeSignature(node) ==
    IF node.kind = "no_attribute" THEN <<>>
    ELSE IF node.kind = "not_implemented" THEN <<>>
    ELSE <<node.signature>>

\* what evaluating node.get_transformation_signature() raises, "" when it
\* returns: a node of another class may lack the attribute, and the method
\* inherited from ETLNode raises NotImplementedError
SignatureCallRaises(node) ==
    CASE node.kind = "no_attribute" -> "AttributeError"
      [] node.kind = "not_implemented" -> "NotImplementedError"
      [] OTHER -> ""

\* GetNodeSignatureRaises without the hasattr test and without the try block
GetNodeSignatureRaisesUnguarded(node) == SignatureCallRaises(node)

\* _get_node_signature: the exception that leaves it, "" when it returns.
\* hasattr guards the call, and NotImplementedError is caught
GetNodeSignatureRaises(node) ==
    IF node.kind = "no_attribute" THEN ""
    ELSE IF SignatureCallRaises(node) = "NotImplementedError" THEN ""
    ELSE SignatureCallRaises(node)

\* the nodes a graph build's loop gets through: those before the first one
\* whose signature lookup raises
RECURSIVE Iterated(_)
Iterated(all_nodes) ==
    IF all_nodes = <<>> \/ GetNodeSignatureRaises(Head(all_nodes)) # "" THEN <<>>
    ELSE <<Head(all_nodes)>> \o Iterated(Tail(all_nodes))

\* the exception that leaves a graph build over all_nodes, "" when it returns
LoopRaises(all_nodes) ==
    IF Len(Iterated(all_nodes)) = Len(all_nodes) THEN ""
    ELSE GetNodeSignatureRaises(all_nodes[Len(Iterated(all_nodes)) + 1])

\* _calculate_schema_state
CalculateSchemaState(current_schema, signature) ==
    LET unchanged_columns == current_schema \ signature.input_schema
    IN  unchanged_columns \cup signature.output_schema

\* _get_or_create_schema_node, on the optimizer state o = [graph, schema_to_node_name];
\* returns the new optimizer state and the node name
GetOrCreateSchemaNode(o, schema) ==
    IF schema \in DOMAIN o.schema_to_node_name
    THEN [o |-> o, name |-> o.schema_to_node_name[schema]]
    ELSE LET node_name == NodeName(schema)
         IN  [o |-> [graph |-> AddNode(o.graph, node_name, schema),
                     schema_to_node_name |->
                         [s \in DOMAIN o.schema_to_node_name \cup {schema} |->
                             IF s = schema THEN node_name
                             ELSE o.schema_to_node_name[s]]],
              name |-> node_name]

\* _process_transformation: returns the new optimizer state and next_state
ProcessTransformation(o, schema_state, signature, current_state, node_id) ==
    LET next_schema_state == CalculateSchemaState(schema_state, signature)
        r == GetOrCreateSchemaNode(o, next_schema_state)
    IN  [o |-> [r.o EXCEPT !.graph =
                    AddEdge(r.o.graph, current_state, r.name, node_id, signature)],
         name |-> r.name]

\* one iteration of build_transformation_graph's loop, on the loop state
\* b = [o, schema_state, current_state]
BuildIteration(b, node) ==
    LET signature == GetNodeSignature(node)
    IN  IF signature = <<>> THEN b
        ELSE LET r == ProcessTransformation(b.o, b.schema_state, signature[1],
                                            b.current_state, node.node_id)
             IN  [o |-> r.o,
                  current_state |-> r.name,
                  schema_state |-> CalculateSchemaState(b.schema_state, signature[1])]

\* the loop state before the first iteration
BuildStart(o) ==
    LET r == GetOrCreateSchemaNode(o, {})
    IN  [o |-> r.o, current_state |-> r.name, schema_state |-> {}]

\* the loop states of build_transformation_graph, from the states so far:
\* trace[k + 1] is the loop state after the first k nodes of all_nodes
RECURSIVE BuildLoop(_, _)
BuildLoop(trace, all_nodes) ==
    IF Len(trace) > Len(all_nodes) THEN trace
    ELSE BuildLoop(Append(trace, BuildIteration(trace[Len(trace)],
                                                all_nodes[Len(trace)])),
                   all_nodes)

\* the loop states of build_transformation_graph(p) on the optimizer state o
BuildTrace(o, p) == BuildLoop(<<BuildStart(o)>>, Iterated(CollectPipelineNodes(p)))

\* build_transformation_graph: the optimizer state it leaves
BuildTransformationGraph(o, p) ==
    LET trace == BuildTrace(o, p)
    IN  trace[Len(trace)].o

-----------------------------------------------------------------------------
(* CayleyGraphOptimizer: the redundant set. *)

\* FindNoChangeRedundancies comparing the schemas with <= instead of ==
FindNoChangeRedundanciesSubset(g) ==
    {e.node_id : e \in {d \in g.edges : SchemaOf(g, d.u) \subseteq SchemaOf(g, d.v)}}

\* _find_no_change_redundancies
FindNoChangeRedundancies(g) ==
    {e.node_id : e \in {d \in g.edges : SchemaOf(g, d.u) = SchemaOf(g, d.v)}}

\* the simple paths of k nodes: sequences of k distinct node names, each
\* joined to the next by an edge
RECURSIVE SimplePaths(_, _)
SimplePaths(g, k) ==
    IF k = 1 THEN {<<n.name>> : n \in g.nodes}
    ELSE {Append(x[1], x[2].v) :
            x \in {y \in SimplePaths(g, k - 1) \X g.edges :
                     /\ y[2].u = y[1][k - 1]
                     /\ \A i \in 1..(k - 1) : y[1][i] # y[2].v}}

\* SimpleCycles finding self-loops only
SimpleCyclesSelfLoops(g) ==
    {c \in SimplePaths(g, 1) : GetEdgeData(g, c[1], c[1]) # <<>>}

\* nx.simple_cycles(graph): the cycles as sequences of distinct node names
\* (every rotation of a cycle is in the set; self-loops are cycles of length 1)
SimpleCycles(g) ==
    UNION {{c \in SimplePaths(g, k) : GetEdgeData(g, c[k], c[1]) # <<>>} :
              k \in 1..Cardinality(g.nodes)}

\* _find_cycle_redundancies
FindCycleRedundancies(g) ==
    UNION {{GetEdgeData(g, c[i], c[(i % Len(c)) + 1])[1].node_id : i \in 1..Len(c)} :
              c \in SimpleCycles(g)}

\* identify_redundancies
IdentifyRedundancies(g) ==
    FindNoChangeRedundancies(g) \cup FindCycleRedundancies(g)

\* CayleyGraphOptimizer(): the state of a new optimizer
FreshOptimizer == [graph |-> EmptyGraph, schema_to_node_name |-> <<>>]

\* ResetOptimizer resetting nothing: the build goes on from the graph and the
\* map the optimizer holds
ResetOptimizerKeeping == [graph |-> graph, schema_to_node_name |-> schema_to_node_name]

\* the optimizer state optimize_pipeline resets to before it builds
ResetOptimizer == [graph |-> EmptyGraph, schema_to_node_name |-> <<>>]

\* OptimizedNodes collecting the kept nodes newest first
RECURSIVE OptimizedNodesPrepending(_, _)
OptimizedNodesPrepending(nodes, redundant) ==
    IF nodes = <<>> THEN <<>>
    ELSE IF Head(nodes).node_id \in redundant
         THEN OptimizedNodesPrepending(Tail(nodes), redundant)
         ELSE Append(OptimizedNodesPrepending(Tail(nodes), redundant), Head(nodes))

\* the list comprehension of optimize_pipeline
OptimizedNodes(nodes, redundant) ==
    SelectSeq(nodes, LAMBDA node : node.node_id \notin redundant)

\* OptimizedPipeline filtering the sink like a step
OptimizedPipelineFilteringSink(p, redundant) ==
    IF redundant = {} THEN p
    ELSE [source |-> p.source,
          nodes  |-> SelectSeq(p.nodes, LAMBDA node : node.node_id \notin redundant),
          sink   |-> SelectSeq(p.sink, LAMBDA node : node.node_id \notin redundant)]

\* optimize_pipeline's return value, from the redundant set it computed
OptimizedPipeline(p, redundant) ==
    IF redundant = {} THEN p
    ELSE [source |-> p.source,
          nodes  |-> OptimizedNodes(p.nodes, redundant),
          sink   |-> p.sink]

-----------------------------------------------------------------------------
(* Spec: one CayleyGraphOptimizer; optimize_pipeline is called on an input  *)
(* pipeline and then on the pipeline it returned.                           *)

\* no builder and no Pipeline object
BuildIdle ==
    /\ heap = [lists |-> <<>>, pipelines |-> <<>>] /\ builder = <<>>
    /\ builds = <<>> /\ optimizations = <<>>

\* no TransformationGraphBuilder and no SchemaStateManager
GraphIdle ==
    /\ tgb_graph = EmptyGraph /\ manager = <<>> /\ issued = <<>> /\ built = <<>>

\* no node operation called yet
NodeIdle ==
    /\ invoked = [op |-> "none"] /\ returned = [raised |-> ""]

ExecIdle ==
    /\ session = <<>> /\ plan = <<>> /\ pc = <<>> /\ ctx_session = <<>>
    /\ executed = <<>> /\ rollbacks = <<>> /\ attaches = <<>> /\ detaches = <<>>
    /\ exc = <<>> /\ outcome = <<>>

Init ==
    /\ \E sch \in IdSchemes, src \in SourceConfigs, cs \in StepConfigLists,
          snk \in Optional(SinkConfigs) :
            pipeline = MakePipeline(sch, src, cs, snk)
    /\ graph = EmptyGraph
    /\ schema_to_node_name = <<>>
    /\ redundant_nodes = {}
    /\ optimized = <<>>
    /\ calls = 0
    /\ hashfn = PythonHash
    /\ raised = ""
    /\ handed = <<>>
    /\ ExecIdle
    /\ BuildIdle
    /\ GraphIdle
    /\ NodeIdle

\* what a call is remembered by: the method called and the pipeline handed to it
Handed(to, p) == [to |-> to, pipeline |-> p]

\* optimizer.optimize_pipeline(p), the whole call: when the graph build
\* raises, nothing is identified and nothing is returned
OptimizePipeline(p) ==
    /\ calls < MaxCalls
    /\ \E o \in {BuildTransformationGraph(ResetOptimizer, p)} :
       \E redundant \in {IdentifyRedundancies(o.graph)} :
          /\ pipeline' = p
          /\ graph' = o.graph
          /\ schema_to_node_name' = o.schema_to_node_name
          /\ raised' = LoopRaises(CollectPipelineNodes(p))
          /\ IF raised' = ""
             THEN /\ redundant_nodes' = redundant
                  /\ optimized' = <<OptimizedPipeline(p, redundant)>>
             ELSE /\ redundant_nodes' = {}
                  /\ optimized' = <<>>
    /\ calls' = calls + 1
    /\ handed' = Append(handed, Handed("optimize_pipeline", p))
    /\ UNCHANGED <<hashfn, execvars, buildvars, graphvars, nodevars>>

\* the first call, on the input pipeline
OptimizeInput ==
    /\ calls = 0
    /\ OptimizePipeline(pipeline)

\* a further call, on the pipeline the previous call returned
OptimizeAgain ==
    /\ calls > 0
    /\ OptimizePipeline(optimized[1])

Next == OptimizeInput \/ OptimizeAgain

Spec == Init /\ [][Next]_vars

-----------------------------------------------------------------------------
(* SpecExec: Pipeline.execute, statement by statement.  Each run has its    *)
(* own PipelineContext and, when it is given one, its own session.  A stage *)
(* is a node's execute: it returns the context it was given, or raises an   *)
(* Exception; session.rollback() returns or raises.                         *)

Runs == {1, 2}

\* the pipelines executed: their steps counted, their sink present or not
Plans == [steps : 0..MaxSteps, sink : BOOLEAN]

\* source, then the steps, then the sink if there is one (_execute_pipeline)
Stages(pl) ==
    <<<<"source", 0>>>> \o [i \in 1..pl.steps |-> <<"step", i>>]
    \o (IF pl.sink THEN <<<<"sink", 0>>>> ELSE <<>>)

OptIdle ==
    /\ pipeline = <<>> /\ graph = EmptyGraph /\ schema_to_node_name = <<>>
    /\ redundant_nodes = {} /\ optimized = <<>> /\ calls = 0 /\ hashfn = PythonHash
    /\ raised = ""
    /\ handed = <<>>

InitExec ==
    /\ OptIdle
    /\ BuildIdle
    /\ GraphIdle
    /\ NodeIdle
    /\ session \in {f \in [Runs -> {0} \cup Runs] : \A r \in Runs : f[r] \in {0, r}}
    /\ plan \in [Runs -> Plans]
    /\ pc = [r \in Runs |-> "ready"]
    /\ ctx_session = [r \in Runs |-> 0]
    /\ executed = [r \in Runs |-> <<>>]
    /\ rollbacks = [r \in Runs |-> 0]
    /\ attaches = [r \in Runs |-> 0]
    /\ detaches = [r \in Runs |-> 0]
    /\ exc = [r \in Runs |-> <<>>]
    /\ outcome = [r \in Runs |-> <<>>]

\* execute: context = PipelineContext(), and the try block is entered
Start(r) ==
    /\ pc[r] = "ready"
    /\ ctx_session' = [ctx_session EXCEPT ![r] = 0]
    /\ pc' = [pc EXCEPT ![r] = "try"]
    /\ UNCHANGED <<optvars, buildvars, graphvars, session, plan, executed, rollbacks, attaches, detaches,
                   exc, outcome, nodevars>>

\* EnterSession with _session held by the class instead of the instance: the
\* session is attached to the context of every run
EnterSessionShared(r) ==
    /\ pc[r] = "try"
    /\ IF session[r] # 0
       THEN /\ ctx_session' = [q \in Runs |-> session[r]]
            /\ attaches' = [attaches EXCEPT ![r] = @ + 1]
       ELSE UNCHANGED <<ctx_session, attaches>>
    /\ pc' = [pc EXCEPT ![r] = "run"]
    /\ UNCHANGED <<optvars, buildvars, graphvars, session, plan, executed, rollbacks, detaches, exc, outcome,
                   nodevars>>

\* if session: with context.with_session(session): self._session = session,
\* up to the yield; without a session the with statement is skipped
EnterSession(r) ==
    /\ pc[r] = "try"
    /\ IF session[r] # 0
       THEN /\ ctx_session' = [ctx_session EXCEPT ![r] = session[r]]
            /\ attaches' = [attaches EXCEPT ![r] = @ + 1]
       ELSE UNCHANGED <<ctx_session, attaches>>
    /\ pc' = [pc EXCEPT ![r] = "run"]
    /\ UNCHANGED <<optvars, buildvars, graphvars, session, plan, executed, rollbacks, detaches, exc, outcome,
                   nodevars>>

\* the next stage of _execute_pipeline, and the session its context holds
NextStage(r) ==
    [stage |-> Stages(plan[r])[Len(executed[r]) + 1], session |-> ctx_session[r]]

\* _execute_pipeline: the next stage's execute is called and returns
StageReturns(r) ==
    /\ pc[r] = "run"
    /\ Len(executed[r]) < Len(Stages(plan[r]))
    /\ executed' = [executed EXCEPT ![r] = Append(@, NextStage(r))]
    /\ UNCHANGED <<optvars, buildvars, graphvars, session, plan, pc, ctx_session, rollbacks, attaches,
                   detaches, exc, outcome, nodevars>>

\* StageRaises with the failure swallowed: the loop goes on to the next stage
StageRaisesContinuing(r) ==
    /\ pc[r] = "run"
    /\ Len(executed[r]) < Len(Stages(plan[r]))
    /\ executed' = [executed EXCEPT ![r] = Append(@, NextStage(r))]
    /\ exc' = [exc EXCEPT ![r] = <<"stage", Len(executed[r]) + 1>>]
    /\ UNCHANGED <<optvars, buildvars, graphvars, session, plan, pc, ctx_session, rollbacks, attaches, detaches,
                   outcome, nodevars>>

\* _execute_pipeline: the next stage's execute is called and raises
StageRaises(r) ==
    /\ pc[r] = "run"
    /\ Len(executed[r]) < Len(Stages(plan[r]))
    /\ executed' = [executed EXCEPT ![r] = Append(@, NextStage(r))]
    /\ exc' = [exc EXCEPT ![r] = <<"stage", Len(executed[r]) + 1>>]
    /\ pc' = [pc EXCEPT ![r] = IF session[r] # 0 THEN "with_exit" ELSE "except"]
    /\ UNCHANGED <<optvars, buildvars, graphvars, session, plan, ctx_session, rollbacks, attaches, detaches,
                   outcome, nodevars>>

\* _execute_pipeline returns the context after the last stage
Return(r) ==
    /\ pc[r] = "run"
    /\ Len(executed[r]) = Len(Stages(plan[r]))
    /\ IF session[r] # 0
       THEN /\ pc' = [pc EXCEPT ![r] = "with_exit"]
            /\ UNCHANGED outcome
       ELSE /\ pc' = [pc EXCEPT ![r] = "returned"]
            /\ outcome' = [outcome EXCEPT ![r] = <<"returned">>]
    /\ UNCHANGED <<optvars, buildvars, graphvars, session, plan, ctx_session, executed, rollbacks, attaches,
                   detaches, exc, nodevars>>

\* WithExit without the finally clause: the session is cleared on a normal
\* exit only
WithExitNoFinally(r) ==
    /\ pc[r] = "with_exit"
    /\ IF exc[r] # <<>>
       THEN /\ pc' = [pc EXCEPT ![r] = "except"]
            /\ UNCHANGED <<outcome, ctx_session, detaches>>
       ELSE /\ pc' = [pc EXCEPT ![r] = "returned"]
            /\ ctx_session' = [ctx_session EXCEPT ![r] = 0]
            /\ detaches' = [detaches EXCEPT ![r] = @ + 1]
            /\ outcome' = [outcome EXCEPT ![r] = <<"returned">>]
    /\ UNCHANGED <<optvars, buildvars, graphvars, session, plan, executed, rollbacks, attaches, exc,
                   nodevars>>

\* with_session after the yield: the exception, if any, is logged and
\* re-raised; finally: self._session = None
WithExit(r) ==
    /\ pc[r] = "with_exit"
    /\ ctx_session' = [ctx_session EXCEPT ![r] = 0]
    /\ detaches' = [detaches EXCEPT ![r] = @ + 1]
    /\ IF exc[r] # <<>>
       THEN /\ pc' = [pc EXCEPT ![r] = "except"]
            /\ UNCHANGED outcome
       ELSE /\ pc' = [pc EXCEPT ![r] = "returned"]
            /\ outcome' = [outcome EXCEPT ![r] = <<"returned">>]
    /\ UNCHANGED <<optvars, buildvars, graphvars, session, plan, executed, rollbacks, attaches, exc,
                   nodevars>>

\* whether the handler of execute calls session.rollback()
HandlerRollsBack(r) == session[r] # 0

\* ExceptRollback re-raising without the rollback
ExceptRollbackForgotten(r) ==
    /\ pc[r] = "except"
    /\ HandlerRollsBack(r)
    /\ pc' = [pc EXCEPT ![r] = "raised"]
    /\ outcome' = [outcome EXCEPT ![r] = <<"raised", exc[r]>>]
    /\ UNCHANGED <<optvars, buildvars, graphvars, session, plan, ctx_session, executed, rollbacks, attaches,
                   detaches, exc, nodevars>>

\* except Exception: if session: session.rollback() returns; raise
ExceptRollback(r) ==
    /\ pc[r] = "except"
    /\ HandlerRollsBack(r)
    /\ rollbacks' = [rollbacks EXCEPT ![session[r]] = @ + 1]
    /\ pc' = [pc EXCEPT ![r] = "raised"]
    /\ outcome' = [outcome EXCEPT ![r] = <<"raised", exc[r]>>]
    /\ UNCHANGED <<optvars, buildvars, graphvars, session, plan, ctx_session, executed, attaches, detaches, exc,
                   nodevars>>

\* except Exception: if session: session.rollback() raises, which leaves
\* the handler with the rollback's exception
ExceptRollbackFails(r) ==
    /\ pc[r] = "except"
    /\ HandlerRollsBack(r)
    /\ rollbacks' = [rollbacks EXCEPT ![session[r]] = @ + 1]
    /\ exc' = [exc EXCEPT ![r] = <<"rollback", session[r]>>]
    /\ pc' = [pc EXCEPT ![r] = "raised"]
    /\ outcome' = [outcome EXCEPT ![r] = <<"raised", <<"rollback", session[r]>>>>]
    /\ UNCHANGED <<optvars, buildvars, graphvars, session, plan, ctx_session, executed, attaches, detaches,
                   nodevars>>

\* except Exception: no session; raise
ExceptNoSession(r) ==
    /\ pc[r] = "except"
    /\ ~HandlerRollsBack(r)
    /\ pc' = [pc EXCEPT ![r] = "raised"]
    /\ outcome' = [outcome EXCEPT ![r] = <<"raised", exc[r]>>]
    /\ UNCHANGED <<optvars, buildvars, graphvars, session, plan, ctx_session, executed, rollbacks, attaches,
                   detaches, exc, nodevars>>

NextExec ==
    \E r \in Runs :
        \/ Start(r)
        \/ EnterSession(r)
        \/ StageReturns(r)
        \/ StageRaises(r)
        \/ Return(r)
        \/ WithExit(r)
        \/ ExceptRollback(r)
        \/ ExceptRollbackFails(r)
        \/ ExceptNoSession(r)

SpecExec == InitExec /\ [][NextExec]_vars

-----------------------------------------------------------------------------
(* SpecBuild: one PipelineBuilder or OptimizingPipelineBuilder and the      *)
(* Pipeline objects made from it.  A Pipeline object keeps the references   *)
(* it was constructed with: its nodes field is a reference to a list        *)
(* object, and a list object changes under every reference to it.           *)

\* the longest nodes list given to a builder
MaxBuilderNodes == 1
\* build() calls on the builder
MaxBuilds == 2
\* optimize_pipeline calls, those made by build() included
MaxOptimizations == 2

\* the nodes handed to the builder: a source without a signature, a step
\* that changes no schema, a step that adds column a, a sink
BuilderSources == {MakeNode("by_config", 0, Unsigned("not_implemented"))}
BuilderSteps ==
    {MakeNode("by_config", 0, Declared({}, {})),
     MakeNode("by_config", 0, Declared({}, {"a"}))}
BuilderSinks == {MakeNode("by_config", 0, Unsigned("no_attribute"))}

BuilderKinds == {"PipelineBuilder", "OptimizingPipelineBuilder"}

\* a new list object holding items: the heap with it, and the reference to it
NewList(h, items) ==
    [h |-> [h EXCEPT !.lists = Append(@, items)], ref |-> Len(h.lists) + 1]

\* Pipeline(source, nodes, sink): a new Pipeline object whose fields are the
\* arguments themselves; nodes is a reference to a list object
NewPipeline(h, source, nodes, sink) ==
    [h |-> [h EXCEPT !.pipelines =
                Append(@, [source |-> source, nodes |-> nodes, sink |-> sink])],
     ref |-> Len(h.pipelines) + 1]

\* what pipeline.source, pipeline.nodes and pipeline.sink read now
Deref(h, ref) ==
    [source |-> h.pipelines[ref].source,
     nodes  |-> h.lists[h.pipelines[ref].nodes],
     sink   |-> h.pipelines[ref].sink]

\* OptimizePipelineCall filtering pipeline.nodes in place and returning the
\* pipeline it was given
OptimizePipelineCallInPlace(h, ref) ==
    LET p == Deref(h, ref)
        o == BuildTransformationGraph(ResetOptimizer, p)
        redundant == IdentifyRedundancies(o.graph)
    IN  [h |-> [h EXCEPT !.lists[h.pipelines[ref].nodes] =
                    OptimizedNodes(p.nodes, redundant)],
         ref |-> ref, redundant |-> redundant]

\* OptimizePipelineCall without the early return: a new Pipeline every time
OptimizePipelineCallAlwaysCopying(h, ref) ==
    LET p == Deref(h, ref)
        o == BuildTransformationGraph(ResetOptimizer, p)
        redundant == IdentifyRedundancies(o.graph)
        l == NewList(h, OptimizedNodes(p.nodes, redundant))
        q == NewPipeline(l.h, p.source, l.ref, p.sink)
    IN  [h |-> q.h, ref |-> q.ref, redundant |-> redundant]

\* optimize_pipeline on the Pipeline object ref: the heap it leaves, the
\* reference it returns and the redundant set it computed
OptimizePipelineCall(h, ref) ==
    LET p == Deref(h, ref)
        o == BuildTransformationGraph(ResetOptimizer, p)
        redundant == IdentifyRedundancies(o.graph)
    IN  IF redundant = {} THEN [h |-> h, ref |-> ref, redundant |-> redundant]
        ELSE LET l == NewList(h, OptimizedNodes(p.nodes, redundant))
                 q == NewPipeline(l.h, p.source, l.ref, p.sink)
             IN  [h |-> q.h, ref |-> q.ref, redundant |-> redundant]

\* the record of one optimize_pipeline call: the object given and its value
\* before and after the call, the object returned, the redundant set
OptimizationRecord(h, ref, r) ==
    [input |-> ref, before |-> Deref(h, ref), after |-> Deref(r.h, ref),
     output |-> r.ref, redundant |-> r.redundant]

\* PipelineBuilderBuildCall without the test of self.source
PipelineBuilderBuildCallUnchecked(h, b) ==
    LET q == NewPipeline(h, b.source, b.nodes, b.sink)
    IN  [h |-> q.h, raised |-> "", ref |-> q.ref, opt |-> <<>>]

\* PipelineBuilder.build on the builder b: the heap it leaves, the exception
\* it raised ("" when none), the reference it returned, the optimize_pipeline
\* calls it made
PipelineBuilderBuildCall(h, b) ==
    IF b.source = <<>>
    THEN [h |-> h, raised |-> "ValueError", ref |-> 0, opt |-> <<>>]
    ELSE LET q == NewPipeline(h, b.source, b.nodes, b.sink)
         IN  [h |-> q.h, raised |-> "", ref |-> q.ref, opt |-> <<>>]

\* OptimizingPipelineBuilder.build on the builder b
OptimizingPipelineBuilderBuildCall(h, b) ==
    IF b.source = <<>>
    THEN [h |-> h, raised |-> "ValueError", ref |-> 0, opt |-> <<>>]
    ELSE IF ~b.optimization_enabled
    THEN LET q == NewPipeline(h, b.source, b.nodes, b.sink)
         IN  [h |-> q.h, raised |-> "", ref |-> q.ref, opt |-> <<>>]
    ELSE LET q == NewPipeline(h, b.source, b.nodes, b.sink)
             r == OptimizePipelineCall(q.h, q.ref)
         IN  [h |-> r.h, raised |-> "", ref |-> r.ref,
              opt |-> <<OptimizationRecord(q.h, q.ref, r)>>]

\* PipelineBuilder.__init__ and OptimizingPipelineBuilder.__init__: the
\* builder's nodes field refers to a new empty list, list object 1
InitBuild ==
    /\ OptIdle
    /\ ExecIdle
    /\ GraphIdle
    /\ NodeIdle
    /\ heap = [lists |-> <<<<>>>>, pipelines |-> <<>>]
    /\ \E kind \in BuilderKinds :
          builder = [kind |-> kind, source |-> <<>>, nodes |-> 1, sink |-> <<>>,
                     optimization_enabled |-> TRUE]
    /\ builds = <<>>
    /\ optimizations = <<>>

\* builder.set_source(source)
SetSource(source) ==
    /\ builder' = [builder EXCEPT !.source = <<source>>]
    /\ UNCHANGED <<optvars, execvars, graphvars, heap, builds, optimizations, nodevars>>

\* builder.add_node(node): self.nodes.append(node)
PipelineBuilderAddNode(node) ==
    /\ Len(heap.lists[builder.nodes]) < MaxBuilderNodes
    /\ heap' = [heap EXCEPT !.lists[builder.nodes] = Append(@, node)]
    /\ UNCHANGED <<optvars, execvars, graphvars, builder, builds, optimizations, nodevars>>

\* builder.set_sink(sink)
SetSink(sink) ==
    /\ builder' = [builder EXCEPT !.sink = <<sink>>]
    /\ UNCHANGED <<optvars, execvars, graphvars, heap, builds, optimizations, nodevars>>

\* builder.disable_optimization()
DisableOptimization ==
    /\ builder.kind = "OptimizingPipelineBuilder"
    /\ builder' = [builder EXCEPT !.optimization_enabled = FALSE]
    /\ UNCHANGED <<optvars, execvars, graphvars, heap, builds, optimizations, nodevars>>

\* builder.enable_optimization()
EnableOptimization ==
    /\ builder.kind = "OptimizingPipelineBuilder"
    /\ builder' = [builder EXCEPT !.optimization_enabled = TRUE]
    /\ UNCHANGED <<optvars, execvars, graphvars, heap, builds, optimizations, nodevars>>

\* a build() call that gave r, as the caller sees it: the source the builder
\* had, the exception or the Pipeline returned with the value it had then,
\* and how many Pipeline objects the call created
BuildReturns(r) ==
    /\ Len(builds) < MaxBuilds
    /\ Len(optimizations) + Len(r.opt) <= MaxOptimizations
    /\ heap' = r.h
    /\ builds' = Append(builds,
                   [source |-> builder.source, raised |-> r.raised, ref |-> r.ref,
                    value |-> IF r.raised = "" THEN <<Deref(r.h, r.ref)>> ELSE <<>>,
                    created |-> Len(r.h.pipelines) - Len(heap.pipelines)])
    /\ optimizations' = optimizations \o r.opt
    /\ UNCHANGED <<optvars, execvars, graphvars, builder, nodevars>>

\* builder.build() on a PipelineBuilder
PipelineBuilderBuild ==
    /\ builder.kind = "PipelineBuilder"
    /\ \E r \in {PipelineBuilderBuildCall(heap, builder)} : BuildReturns(r)

\* builder.build() on an OptimizingPipelineBuilder
OptimizingPipelineBuilderBuild ==
    /\ builder.kind = "OptimizingPipelineBuilder"
    /\ \E r \in {OptimizingPipelineBuilderBuildCall(heap, builder)} : BuildReturns(r)

\* CayleyGraphOptimizer().optimize_pipeline(pipeline) on a Pipeline object
OptimizeBuilt(ref) ==
    /\ Len(optimizations) < MaxOptimizations
    /\ \E r \in {OptimizePipelineCall(heap, ref)} :
          /\ heap' = r.h
          /\ optimizations' = Append(optimizations, OptimizationRecord(heap, ref, r))
    /\ UNCHANGED <<optvars, execvars, graphvars, builder, builds, nodevars>>

NextBuild ==
    \/ \E source \in BuilderSources : SetSource(source)
    \/ \E node \in BuilderSteps : PipelineBuilderAddNode(node)
    \/ \E sink \in BuilderSinks : SetSink(sink)
    \/ DisableOptimization
    \/ EnableOptimization
    \/ PipelineBuilderBuild
    \/ OptimizingPipelineBuilderBuild
    \/ \E ref \in 1..Len(heap.pipelines) : OptimizeBuilt(ref)

SpecBuild == InitBuild /\ [][NextBuild]_vars

-----------------------------------------------------------------------------
(* SpecGraph: the graph of one pipeline built again and again, by           *)
(* CayleyGraphOptimizer.build_transformation_graph (which resets nothing)   *)
(* and by TransformationGraphBuilder.build_graph over a SchemaStateManager, *)
(* on new objects and on objects that have built before.  hash() is one of  *)
(* several functions: Python fixes it per process, and it need not be       *)
(* injective.                                                               *)

\* the longest steps list of a pipeline whose graph is built
MaxGraphSteps == 1
\* graph builds made
MaxGraphBuilds == 2
\* get_or_create_node calls made directly on the manager
MaxIssued == 2

\* hash() in another process: injective, other values
SeededHash == [s \in SUBSET Cols |-> 7 - PythonHash[s]]

\* a hash() under which the column sets {a} and {b} collide
CollidingHash == [s \in SUBSET Cols |-> IF s = {"b"} THEN PythonHash[{"a"}]
                                        ELSE PythonHash[s]]

HashFns == {PythonHash, SeededHash, CollidingHash}

\* the column sets the manager is asked for directly
IssuedSchemas == {{"a"}, {"b"}}

\* GetOrCreateNode minting a handle on every call
GetOrCreateNodeMinting(m, schema) ==
    LET node_name == <<"schema", hashfn[schema] + Cardinality(DOMAIN m)>>
    IN  [m |-> [s \in DOMAIN m \cup {schema} |->
                   IF s = schema THEN node_name ELSE m[s]],
         name |-> node_name]

\* SchemaStateManager.get_or_create_node on the map m: the map it leaves and
\* the handle it returns
GetOrCreateNode(m, schema) ==
    IF schema \in DOMAIN m
    THEN [m |-> m, name |-> m[schema]]
    ELSE LET node_name == NodeName(schema)
         IN  [m |-> [s \in DOMAIN m \cup {schema} |->
                        IF s = schema THEN node_name ELSE m[s]],
              name |-> node_name]

\* CalculateNextState adding the output columns without dropping the inputs
CalculateNextStateKeepingInputs(current_schema, signature) ==
    current_schema \cup signature.output_schema

\* SchemaStateManager.calculate_next_state
CalculateNextState(current_schema, signature) ==
    LET unchanged_columns == current_schema \ signature.input_schema
    IN  unchanged_columns \cup signature.output_schema

\* AddSchemaNode adding the node to the graph only when the manager mints a
\* new handle, as _get_or_create_schema_node of the optimizer does
AddSchemaNodeOnlyNew(o, schema) ==
    LET r == GetOrCreateNode(o.schema_to_node_name, schema)
    IN  [o |-> [graph |-> IF schema \in DOMAIN o.schema_to_node_name
                          THEN o.graph
                          ELSE AddNode(o.graph, r.name, schema),
                schema_to_node_name |-> r.m],
         name |-> r.name]

\* TransformationGraphBuilder._add_schema_node, on the builder state
\* o = [graph, schema_to_node_name] (its graph and its manager's map)
AddSchemaNode(o, schema) ==
    LET r == GetOrCreateNode(o.schema_to_node_name, schema)
    IN  [o |-> [graph |-> AddNode(o.graph, r.name, schema),
                schema_to_node_name |-> r.m],
         name |-> r.name]

\* TransformationGraphBuilder._process_transformation
BuildGraphProcessTransformation(o, schema_state, signature, current_state, node_id) ==
    LET next_schema_state == CalculateNextState(schema_state, signature)
        r == AddSchemaNode(o, next_schema_state)
    IN  [o |-> [r.o EXCEPT !.graph =
                    AddEdge(r.o.graph, current_state, r.name, node_id, signature)],
         name |-> r.name]

\* one iteration of build_graph's loop, on b = [o, schema_state, current_state]
BuildGraphIteration(b, node) ==
    LET signature == GetNodeSignature(node)
    IN  IF signature = <<>> THEN b
        ELSE LET r == BuildGraphProcessTransformation(b.o, b.schema_state, signature[1],
                                                      b.current_state, node.node_id)
             IN  [o |-> r.o,
                  current_state |-> r.name,
                  schema_state |-> CalculateNextState(b.schema_state, signature[1])]

RECURSIVE BuildGraphLoop(_, _)
BuildGraphLoop(b, all_nodes) ==
    IF all_nodes = <<>> THEN b
    ELSE BuildGraphLoop(BuildGraphIteration(b, Head(all_nodes)), Tail(all_nodes))

\* TransformationGraphBuilder.build_graph: the builder state it leaves
BuildGraph(o, p) ==
    LET r == AddSchemaNode(o, {})
    IN  BuildGraphLoop([o |-> r.o, current_state |-> r.name, schema_state |-> {}],
                       Iterated(CollectPipelineNodes(p))).o

\* the pipelines whose graph is built: a source without a signature, one that
\* changes no schema and one that emits column a; steps that have no
\* signature, change no schema, add column a or rename a to b; a sink that
\* consumes column a, or no sink
GraphSourceConfigs == {Unsigned("not_implemented"), Declared({}, {}), Declared({}, {"a"})}
GraphStepConfigs ==
    {Unsigned("not_implemented"), Declared({}, {}), Declared({}, {"a"}),
     Declared({"a"}, {"b"})}
GraphSinkConfigs == {Declared({"a"}, {})}
GraphStepConfigLists == UNION {[1..n -> GraphStepConfigs] : n \in 0..MaxGraphSteps}

InitGraph ==
    /\ \E src \in GraphSourceConfigs, cs \in GraphStepConfigLists,
          snk \in Optional(GraphSinkConfigs) :
            pipeline = MakePipeline("unique", src, cs, snk)
    /\ graph = EmptyGraph
    /\ schema_to_node_name = <<>>
    /\ redundant_nodes = {}
    /\ optimized = <<>>
    /\ calls = 0
    /\ hashfn \in HashFns
    /\ raised = ""
    /\ handed = <<>>
    /\ ExecIdle
    /\ BuildIdle
    /\ GraphIdle
    /\ NodeIdle

\* what a build is remembered by: who built, and the graph the build left
BuildRecord(by, after) == [by |-> by, graph |-> after]

\* optimizer = CayleyGraphOptimizer()
NewOptimizer ==
    /\ graph # EmptyGraph
    /\ graph' = EmptyGraph
    /\ schema_to_node_name' = <<>>
    /\ UNCHANGED <<pipeline, redundant_nodes, optimized, calls, hashfn, raised, handed,
                   execvars, buildvars, graphvars, nodevars>>

\* optimizer.build_transformation_graph(pipeline)
BuildTransformationGraphCall ==
    /\ Len(built) < MaxGraphBuilds
    /\ \E o \in {BuildTransformationGraph(
                    [graph |-> graph, schema_to_node_name |-> schema_to_node_name],
                    pipeline)} :
          /\ graph' = o.graph
          /\ schema_to_node_name' = o.schema_to_node_name
          /\ built' = Append(built, BuildRecord("CayleyGraphOptimizer", o.graph))
    /\ raised' = LoopRaises(CollectPipelineNodes(pipeline))
    /\ handed' = Append(handed, Handed("build_transformation_graph", pipeline))
    /\ UNCHANGED <<pipeline, redundant_nodes, optimized, calls, hashfn, execvars,
                   buildvars, tgb_graph, manager, issued, nodevars>>

\* builder = TransformationGraphBuilder(schema_manager), over the manager in use
NewGraphBuilder ==
    /\ tgb_graph # EmptyGraph
    /\ tgb_graph' = EmptyGraph
    /\ UNCHANGED <<optvars, execvars, buildvars, manager, issued, built, nodevars>>

\* builder.build_graph(p), the whole call
BuildGraphOf(p) ==
    /\ Len(built) < MaxGraphBuilds
    /\ \E o \in {BuildGraph([graph |-> tgb_graph, schema_to_node_name |-> manager], p)} :
          /\ pipeline' = p
          /\ tgb_graph' = o.graph
          /\ manager' = o.schema_to_node_name
          /\ built' = Append(built,
                        BuildRecord("TransformationGraphBuilder", o.graph))
    /\ raised' = LoopRaises(CollectPipelineNodes(p))
    /\ handed' = Append(handed, Handed("build_graph", p))
    /\ UNCHANGED <<graph, schema_to_node_name, redundant_nodes, optimized, calls, hashfn,
                   execvars, buildvars, issued, nodevars>>

\* builder.build_graph(pipeline)
BuildGraphCall == BuildGraphOf(pipeline)

\* schema_manager.get_or_create_node(schema)
GetOrCreateNodeCall(schema) ==
    /\ Len(issued) < MaxIssued
    /\ \E r \in {GetOrCreateNode(manager, schema)} :
          /\ manager' = r.m
          /\ issued' = Append(issued, [schema |-> schema, name |-> r.name])
    /\ UNCHANGED <<optvars, execvars, buildvars, tgb_graph, built, nodevars>>

NextGraph ==
    \/ NewOptimizer
    \/ BuildTransformationGraphCall
    \/ NewGraphBuilder
    \/ BuildGraphCall
    \/ \E schema \in IssuedSchemas : GetOrCreateNodeCall(schema)

SpecGraph == InitGraph /\ [][NextGraph]_vars

-----------------------------------------------------------------------------
(* SpecReuse: one CayleyGraphOptimizer and one TransformationGraphBuilder,  *)
(* each handed one pipeline after another.  The pipelines differ in which   *)
(* of their stages have a signature, from all to none.                      *)

\* calls that are handed a pipeline
MaxHanded == 2

\* a source without a signature or one that emits column a; no step, a step
\* of another class without the signature method, a step that keeps column a
\* or one that renames a to b; no sink or a sink without a signature
ReuseSourceConfigs == {Unsigned("not_implemented"), Declared({}, {"a"})}
ReuseStepConfigLists ==
    {<<>>, <<Unsigned("no_attribute")>>, <<Declared({"a"}, {"a"})>>,
     <<Declared({"a"}, {"b"})>>}
ReuseSinkConfigs == {Unsigned("not_implemented")}
ReusePipelines ==
    {MakePipeline("unique", src, cs, snk) :
        src \in ReuseSourceConfigs, cs \in ReuseStepConfigLists,
        snk \in Optional(ReuseSinkConfigs)}

InitReuse ==
    /\ OptIdle
    /\ ExecIdle
    /\ BuildIdle
    /\ GraphIdle
    /\ NodeIdle

\* optimizer.optimize_pipeline(p) on the optimizer in use
ReuseOptimizer(p) ==
    /\ Len(handed) < MaxHanded
    /\ OptimizePipeline(p)

\* builder.build_graph(p) on the graph builder in use
ReuseGraphBuilder(p) ==
    /\ Len(handed) < MaxHanded
    /\ BuildGraphOf(p)

NextReuse ==
    \E p \in ReusePipelines :
        \/ ReuseOptimizer(p)
        \/ ReuseGraphBuilder(p)

SpecReuse == InitReuse /\ [][NextReuse]_vars

-----------------------------------------------------------------------------
(* SpecNodes: single operations, each called with arguments drawn from      *)
(* small sets: ColumnRenamer.execute and SQLAlchemySink.execute on a new    *)
(* PipelineContext, and SchemaStateManager.calculate_next_state.  A         *)
(* DataFrame is its list of column labels or its list of rows.              *)

\* the column names of the data
NodeCols == {"a", "b", "c"}
\* the most rows handed to the sink
MaxRows == 5
\* the largest batch size of the sink
MaxBatchSize == 3

\* the column labels of a DataFrame: distinct names in some order
ColumnLists ==
    {cols \in UNION {[1..n -> NodeCols] : n \in 0..Cardinality(NodeCols)} :
        \A i, j \in DOMAIN cols : i # j => cols[i] # cols[j]}

\* context.data handed to ColumnRenamer.execute: a DataFrame or another object
RenamerData ==
    {[frame |-> TRUE, columns |-> cols] : cols \in ColumnLists}
    \cup {[frame |-> FALSE, columns |-> <<>>]}

\* the mappings ColumnRenamer accepts: _validate_mapping rejects the empty dict
ColumnMappings == UNION {[keys -> NodeCols] : keys \in (SUBSET NodeCols) \ {{}}}

\* d[key] = value on a dict
SetItem(d, key, value) ==
    [k \in DOMAIN d \cup {key} |-> IF k = key THEN value ELSE d[k]]

\* DataFrameRename keeping the renamed columns only
DataFrameRenameSelecting(columns, column_mapping) ==
    LET RECURSIVE Sel(_)
        Sel(cs) == IF cs = <<>> THEN <<>>
                   ELSE IF Head(cs) \in DOMAIN column_mapping
                        THEN <<column_mapping[Head(cs)]>> \o Sel(Tail(cs))
                        ELSE Sel(Tail(cs))
    IN  Sel(columns)

\* context.data.rename(columns=self.column_mapping), on the column labels:
\* a label that is a key of the mapping is replaced, any other label stays
DataFrameRename(columns, column_mapping) ==
    [i \in 1..Len(columns) |->
        IF columns[i] \in DOMAIN column_mapping THEN column_mapping[columns[i]]
        ELSE columns[i]]

\* ColumnRenamer.get_transformation_signature
ColumnRenamerSignature(column_mapping) ==
    [input_schema |-> DOMAIN column_mapping,
     output_schema |-> {column_mapping[k] : k \in DOMAIN column_mapping}]

\* ColumnRenamer(column_mapping).execute(context) on a context [data, metadata]
ColumnRenamerExecuteCall(column_mapping, context) ==
    IF ~context.data.frame
    THEN [raised |-> "TypeError", data |-> context.data, metadata |-> context.metadata]
    ELSE LET columns == DataFrameRename(context.data.columns, column_mapping)
         IN  [raised |-> "",
              data |-> [frame |-> TRUE, columns |-> columns],
              metadata |-> SetItem(context.metadata, "columns", columns)]

\* range(start, stop, step) for a positive step
RECURSIVE PyRange(_, _, _)
PyRange(start, stop, step) ==
    IF start >= stop THEN <<>> ELSE <<start>> \o PyRange(start + step, stop, step)

\* Slice taking one element more
SliceInclusive(data, i, j) ==
    SubSeq(data, i + 1, IF j + 1 < Len(data) THEN j + 1 ELSE Len(data))

\* data[i : j] for 0 <= i <= j
Slice(data, i, j) == SubSeq(data, i + 1, IF j < Len(data) THEN j ELSE Len(data))

\* SQLAlchemySink(model, batch_size).execute(context) on a context
\* [rows, has_session, metadata]: without a session ValueError; range()
\* raises ValueError for a zero step and is empty for a negative one
SQLAlchemySinkExecuteCall(batch_size, context) ==
    IF ~context.has_session \/ batch_size = 0
    THEN [raised |-> "ValueError", inserts |-> <<>>, metadata |-> context.metadata]
    ELSE LET data == context.rows
             starts == IF batch_size < 0 THEN <<>>
                       ELSE PyRange(0, Len(data), batch_size)
         IN  [raised |-> "",
              inserts |-> [k \in 1..Len(starts) |->
                              Slice(data, starts[k], starts[k] + batch_size)],
              metadata |-> SetItem(context.metadata, "processed_rows", Len(data))]

InitNodes ==
    /\ OptIdle
    /\ ExecIdle
    /\ BuildIdle
    /\ GraphIdle
    /\ NodeIdle

\* ColumnRenamer(column_mapping).execute(PipelineContext(data=data))
ColumnRenamerExecute(column_mapping, data) ==
    /\ invoked' = [op |-> "ColumnRenamer.execute", column_mapping |-> column_mapping,
                   data |-> data]
    /\ returned' = ColumnRenamerExecuteCall(column_mapping,
                                            [data |-> data, metadata |-> <<>>])
    /\ UNCHANGED <<optvars, execvars, buildvars, graphvars>>

\* SQLAlchemySink(model, batch_size).execute(context) on a context of n rows,
\* with a session attached or not
SQLAlchemySinkExecute(batch_size, n, has_session) ==
    /\ invoked' = [op |-> "SQLAlchemySink.execute", batch_size |-> batch_size,
                   rows |-> [i \in 1..n |-> i], has_session |-> has_session]
    /\ returned' = SQLAlchemySinkExecuteCall(batch_size,
                       [rows |-> [i \in 1..n |-> i], has_session |-> has_session,
                        metadata |-> <<>>])
    /\ UNCHANGED <<optvars, execvars, buildvars, graphvars>>

\* schema_manager.calculate_next_state(current_schema, signature): the value
\* returned and the set object handed in, which no statement writes to
CalculateNextStateCallOf(current_schema, signature) ==
    /\ invoked' = [op |-> "calculate_next_state", current_schema |-> current_schema,
                   signature |-> signature]
    /\ returned' = [raised |-> "",
                    value |-> CalculateNextState(current_schema, signature),
                    current_schema |-> current_schema]
    /\ UNCHANGED <<optvars, execvars, buildvars, graphvars>>

NextNodes ==
    \/ \E column_mapping \in ColumnMappings, data \in RenamerData :
          ColumnRenamerExecute(column_mapping, data)
    \/ \E batch_size \in (0 - 1)..MaxBatchSize, n \in 0..MaxRows, has_session \in BOOLEAN :
          SQLAlchemySinkExecute(batch_size, n, has_session)
    \/ \E current_schema \in SUBSET NodeCols, input_schema \in SUBSET NodeCols,
          output_schema \in SUBSET NodeCols :
          CalculateNextStateCallOf(current_schema,
              [input_schema |-> input_schema, output_schema |-> output_schema])

SpecNodes == InitNodes /\ [][NextNodes]_vars

-----------------------------------------------------------------------------
(* Properties of the optimizer, checked under Spec. *)

AllNodes(p) == CollectPipelineNodes(p)

\* a pipeline's stages have pairwise distinct ids
DistinctIds(p) ==
    \A i, j \in 1..Len(AllNodes(p)) :
        i # j => AllNodes(p)[i].node_id # AllNodes(p)[j].node_id

HasSignature(node) == GetNodeSignature(node) # <<>>

\* the schema states of p: SchemaTrace(p)[k + 1] is the state after the first
\* k stages
SchemaTrace(p) ==
    LET trace == BuildTrace(ResetOptimizer, p)
    IN  [k \in 1..Len(trace) |-> trace[k].schema_state]

\* the edges in the graph after the first k stages of p, at index k + 1
EdgeTrace(p) ==
    LET trace == BuildTrace(ResetOptimizer, p)
    IN  [k \in 1..Len(trace) |-> trace[k].o.graph.edges]

\* the schema state at the end of p
FinalSchemaState(p) == SchemaTrace(p)[Len(AllNodes(p)) + 1]

Called == calls > 0

Result == optimized[1]

\* the positions of pipeline.nodes whose id is not in the redundant set
Kept == {i \in 1..Len(pipeline.nodes) : pipeline.nodes[i].node_id \notin redundant_nodes}

\* the j-th of them, in increasing order
KeptAt(j) == CHOOSE i \in Kept : Cardinality({k \in Kept : k < i}) = j - 1

\* C1: for a pipeline with pairwise distinct ids, the schema state at the end
\* of the pipeline optimize_pipeline returns equals the schema state at the
\* end of the pipeline it was given.
C1_FinalSchemaPreserved ==
    (Called /\ DistinctIds(pipeline)) =>
        FinalSchemaState(Result) = FinalSchemaState(pipeline)

\* C2: optimize_pipeline applied to the pipeline it returned removes no
\* further step.
C2_Idempotent ==
    calls >= 2 => Result.nodes = pipeline.nodes

\* C3: the steps of optimize_pipeline(p) are exactly the steps of p whose id
\* is not in the redundant set, in their original relative order.
C3_KeptStepsInOrder ==
    Called =>
        /\ Len(Result.nodes) = Cardinality(Kept)
        /\ \A j \in 1..Len(Result.nodes) : Result.nodes[j] = pipeline.nodes[KeptAt(j)]

\* a middle step is removed and the steps around it are kept
C3_Witness ==
    /\ calls = 1
    /\ Len(pipeline.nodes) = 3
    /\ Kept = {1, 3}
    /\ pipeline.nodes[1] # pipeline.nodes[3]

\* C4: optimize_pipeline(p) has the source and the sink of p, also when the
\* id of the source or of the sink is in the redundant set.
C4_SourceAndSinkKept ==
    Called => (Result.source = pipeline.source /\ Result.sink = pipeline.sink)

\* the source's and the sink's ids are both flagged, and a step was removed
C4_Witness ==
    /\ Called
    /\ DistinctIds(pipeline)
    /\ pipeline.sink # <<>>
    /\ pipeline.source[1].node_id \in redundant_nodes
    /\ pipeline.sink[1].node_id \in redundant_nodes
    /\ Len(Result.nodes) < Len(pipeline.nodes)

\* the schema trace of p never repeats a state: every stage with a signature
\* leads to a schema state not visited before
NeverRepeats(p) ==
    LET states == SchemaTrace(p)
    IN  \A k \in 1..Len(AllNodes(p)) :
            HasSignature(AllNodes(p)[k]) =>
                \A j \in 1..k : states[j] # states[k + 1]

SignatureCount(p) ==
    Cardinality({k \in 1..Len(AllNodes(p)) : HasSignature(AllNodes(p)[k])})

CycleScenario(p) ==
    /\ ~HasSignature(p.source[1])
    /\ \A i \in 1..Len(p.sink) : ~HasSignature(p.sink[i])
    /\ Len(p.nodes) = 3
    /\ \A i \in 1..3 : HasSignature(p.nodes[i])
    /\ SubSeq(SchemaTrace(p), 1, 5) = <<{}, {}, {"a"}, {"a", "b"}, {"a"}>>

\* C6 as stated: in the cycle scenario the ids of all three steps are in the
\* redundant set.
C6_AllThreeRedundant ==
    (Called /\ CycleScenario(pipeline)) =>
        \A i \in 1..3 : pipeline.nodes[i].node_id \in redundant_nodes

\* C6 as amended: in the cycle scenario the redundant set holds exactly the
\* ids of step2 and step3, the two steps on the cycle {a} -> {a,b} -> {a};
\* the id of step1, whose edge {} -> {a} lies on no cycle, is in it only when
\* step1 shares its id with one of them.
C6_CycleStepsRedundant ==
    (Called /\ CycleScenario(pipeline)) =>
        redundant_nodes = {pipeline.nodes[2].node_id, pipeline.nodes[3].node_id}

\* the cycle scenario with pairwise distinct ids, optimized
C6_Witness ==
    /\ Called
    /\ CycleScenario(pipeline)
    /\ DistinctIds(pipeline)
    /\ pipeline.nodes[1].node_id \notin redundant_nodes
    /\ Len(Result.nodes) = 1

\* C7: in a pipeline with exactly one step, whose signature has
\* input_schema = output_schema = {a}, that step's id is in the redundant
\* set, whether or not column a is in the schema state before the step.
C7_SchemaPreservingStepRedundant ==
    (/\ Called
     /\ Len(pipeline.nodes) = 1
     /\ HasSignature(pipeline.nodes[1])
     /\ pipeline.nodes[1].signature = [input_schema |-> {"a"}, output_schema |-> {"a"}])
    => pipeline.nodes[1].node_id \in redundant_nodes

\* C8: in a pipeline with pairwise distinct ids, a step without a signature
\* adds no edge and changes no schema state, its id is not in the redundant
\* set, and it is in the optimized pipeline.
C8_UnsignedStepsUntouched ==
    (Called /\ DistinctIds(pipeline)) =>
        LET states == SchemaTrace(pipeline)
            edges == EdgeTrace(pipeline)
        IN  \A i \in 1..Len(pipeline.nodes) :
                ~(pipeline.nodes[i].kind = "declared") =>
                    /\ edges[i + 2] = edges[i + 1]
                    /\ states[i + 2] = states[i + 1]
                    /\ pipeline.nodes[i].node_id \notin redundant_nodes
                    /\ \E j \in 1..Len(Result.nodes) :
                           Result.nodes[j] = pipeline.nodes[i]

\* a step of each unsigned kind next to steps that were removed
C8_Witness ==
    /\ Called
    /\ DistinctIds(pipeline)
    /\ Len(pipeline.nodes) = 3
    /\ \E i, j \in 1..3 :
          /\ pipeline.nodes[i].kind = "not_implemented"
          /\ pipeline.nodes[j].kind = "no_attribute"
    /\ Len(Result.nodes) = 2

\* C20: after the graph is built for a pipeline (here one with pairwise
\* distinct ids) it has one edge per stage that has a signature: as many
\* edges as signature-bearing stages, each such stage's id on exactly one edge.
C20_OneEdgePerSignedStage ==
    (Called /\ DistinctIds(pipeline)) =>
        /\ Cardinality(graph.edges) = SignatureCount(pipeline)
        /\ \A k \in 1..Len(AllNodes(pipeline)) :
              HasSignature(AllNodes(pipeline)[k]) =>
                  Cardinality({e \in graph.edges :
                                  e.node_id = AllNodes(pipeline)[k].node_id}) = 1

\* C24: whenever the schema trace of a pipeline (here one with pairwise
\* distinct ids) returns to a schema state it was in before, also by a single
\* stage that leaves the state unchanged, the id of every signature-bearing
\* stage executed between the two visits of that state is in the redundant
\* set, however many stages of the pipeline make the same transition.
C24_RevisitedStagesRedundant ==
    (Called /\ DistinctIds(pipeline)) =>
        LET states == SchemaTrace(pipeline)
            all_nodes == AllNodes(pipeline)
        IN  \A i, j \in 1..Len(states) :
                (i < j /\ states[i] = states[j]) =>
                    \A k \in i..(j - 1) :
                        HasSignature(all_nodes[k]) =>
                            all_nodes[k].node_id \in redundant_nodes

\* the same with every state-to-state transition made by one stage only: the
\* part of C24 that the one-edge-per-node-pair graph does not break
C24_RevisitedStagesRedundantNoRepeat ==
    (/\ Called
     /\ DistinctIds(pipeline)
     /\ Cardinality(graph.edges) = SignatureCount(pipeline)) =>
        LET states == SchemaTrace(pipeline)
            all_nodes == AllNodes(pipeline)
        IN  \A i, j \in 1..Len(states) :
                (i < j /\ states[i] = states[j]) =>
                    \A k \in i..(j - 1) :
                        HasSignature(all_nodes[k]) =>
                            all_nodes[k].node_id \in redundant_nodes

\* C30: any two distinct signature-bearing steps placed in one pipeline (two
\* ColumnRenamer instances, whatever their mappings) have different node_ids,
\* so that each redundant id removes exactly one step: the pipeline
\* optimize_pipeline returns is shorter by the number of redundant step ids.
C30_StepIdsUnique ==
    /\ \A i, j \in 1..Len(pipeline.nodes) :
          (/\ i # j
           /\ pipeline.nodes[i].kind = "declared"
           /\ pipeline.nodes[j].kind = "declared") =>
              pipeline.nodes[i].node_id # pipeline.nodes[j].node_id
    /\ Called =>
          Len(pipeline.nodes) - Len(Result.nodes) =
              Cardinality({id \in redundant_nodes :
                              \E i \in 1..Len(pipeline.nodes) :
                                  pipeline.nodes[i].node_id = id})

-----------------------------------------------------------------------------
(* Properties of the execution engine, checked under SpecExec. *)

Finished(r) == pc[r] \in {"returned", "raised"}

\* C9: in a run with a session, session.rollback() is invoked exactly once
\* when a stage raises, before the failure reaches the caller, and never when
\* all stages succeed; in a run without a session no rollback is issued.
C9_RollbackOnceOnFailure ==
    \A r \in Runs :
        /\ (session[r] # 0 /\ pc[r] = "raised") => rollbacks[r] = 1
        /\ (session[r] # 0 /\ pc[r] # "raised") => rollbacks[r] = 0
        /\ session[r] = 0 => rollbacks[r] = 0

\* the second step raised in a run with a session, and the caller has the failure
C9_Witness ==
    /\ session[1] = 1
    /\ pc[1] = "raised"
    /\ outcome[1] = <<"raised", <<"stage", 3>>>>
    /\ rollbacks[1] = 1
    /\ pc[2] = "returned" /\ session[2] = 2 /\ rollbacks[2] = 0

\* C10: in a run with a session, the session is attached to the context
\* before source.execute starts, stays attached while every stage executes
\* and is detached exactly once when the run ends, on success and on failure:
\* afterwards the context holds no session.
C10_SessionScopedToRun ==
    \A r \in Runs :
        session[r] # 0 =>
            /\ \A i \in 1..Len(executed[r]) : executed[r][i].session = session[r]
            /\ pc[r] = "run" => (ctx_session[r] = session[r] /\ attaches[r] = 1)
            /\ detaches[r] <= 1
            /\ Finished(r) =>
                 (ctx_session[r] = 0 /\ detaches[r] = 1 /\ attaches[r] = 1)

\* a run with a session that failed in its sink, and one that succeeded
C10_Witness ==
    /\ session[1] = 1 /\ pc[1] = "raised"
    /\ plan[1].sink /\ Len(executed[1]) = Len(Stages(plan[1]))
    /\ ctx_session[1] = 0 /\ detaches[1] = 1
    /\ session[2] = 2 /\ pc[2] = "returned" /\ Len(executed[2]) >= 2
    /\ ctx_session[2] = 0 /\ detaches[2] = 1

\* the stages a run has executed are the first stages of its pipeline, in order
ExecutedPrefix(r) ==
    /\ Len(executed[r]) <= Len(Stages(plan[r]))
    /\ \A i \in 1..Len(executed[r]) : executed[r][i].stage = Stages(plan[r])[i]

\* C11: in every run the stages executed form a prefix of [source] ++ steps
\* ++ [sink if present], one stage at a time and in that order; the prefix is
\* the whole sequence when the run succeeds, and it ends at the first stage
\* that raises: once a stage has raised, no further stage is executed.
C11_StagesRunInOrder ==
    /\ [](\A r \in Runs :
            /\ ExecutedPrefix(r)
            /\ pc[r] = "returned" => Len(executed[r]) = Len(Stages(plan[r]))
            /\ (exc[r] # <<>> /\ exc[r][1] = "stage") => Len(executed[r]) = exc[r][2])
    /\ [][\A r \in Runs :
            /\ \/ executed'[r] = executed[r]
               \/ /\ pc[r] = "run"
                  /\ Len(executed'[r]) = Len(executed[r]) + 1
                  /\ SubSeq(executed'[r], 1, Len(executed[r])) = executed[r]
            /\ pc[r] \in {"with_exit", "except", "raised", "returned"} =>
                  executed'[r] = executed[r]]_vars

\* a run that stopped at its second step, with a third step and a sink left,
\* and a run that executed all five of its stages
C11_Witness ==
    /\ pc[1] = "raised"
    /\ plan[1] = [steps |-> 3, sink |-> TRUE]
    /\ Len(executed[1]) = 3
    /\ pc[2] = "returned"
    /\ plan[2] = [steps |-> 3, sink |-> TRUE]
    /\ Len(executed[2]) = 5

\* C12: whenever a stage raises during execute, with or without a session,
\* the failure the caller receives is that stage's own failure, whatever the
\* session's rollback() does.
C12_CallerGetsStageFailure ==
    \A r \in Runs :
        pc[r] = "raised" =>
            outcome[r] = <<"raised", <<"stage", Len(executed[r])>>>>

\* what belongs to run r: its position, its context, the stages it executed,
\* its failure and outcome, and what was done to its session
RunState(r) ==
    <<pc[r], ctx_session[r], executed[r], attaches[r], detaches[r], rollbacks[r],
      exc[r], outcome[r]>>

\* the state a finished run r is left in when it runs alone, given the stage
\* at which it failed, if any: stages in order with its own session attached,
\* one attach and one detach of its session, one rollback of its session
\* if it failed and none otherwise
AsIfAlone(r) ==
    LET n == Len(executed[r])
        one == IF session[r] # 0 THEN 1 ELSE 0
    IN  /\ executed[r] = [i \in 1..n |->
                             [stage |-> Stages(plan[r])[i], session |-> session[r]]]
        /\ ctx_session[r] = 0
        /\ attaches[r] = one
        /\ detaches[r] = one
        /\ outcome[r][1] = "returned" =>
              /\ n = Len(Stages(plan[r]))
              /\ exc[r] = <<>>
              /\ rollbacks[r] = 0
        /\ outcome[r][1] = "raised" =>
              /\ n >= 1
              /\ rollbacks[r] = one
              /\ exc[r] \in {<<"stage", n>>, <<"rollback", session[r]>>}

\* C23: when two runs of Pipeline.execute are interleaved step by step, each
\* with its own session, every step touches the context, the session and the
\* record of one run only; a run's context never holds the other run's
\* session, a session is rolled back only by a failure of its own run, and a
\* finished run is in the state it reaches when it runs alone.
C23_RunsIsolated ==
    /\ [](\A r \in Runs :
            /\ ctx_session[r] \in {0, session[r]}
            /\ \A i \in 1..Len(executed[r]) : executed[r][i].session \in {0, session[r]}
            /\ rollbacks[r] > 0 => (session[r] = r /\ exc[r] # <<>>)
            /\ Finished(r) => AsIfAlone(r))
    /\ [][\E r \in Runs : \A q \in Runs \ {r} : RunState(q)' = RunState(q)]_vars

\* run 1 failed at its second or a later stage and its session was rolled
\* back while run 2, with its own session attached, is between two stages
C23_Witness ==
    /\ pc[1] = "raised"
    /\ Len(executed[1]) >= 2
    /\ rollbacks[1] = 1
    /\ pc[2] = "run"
    /\ ctx_session[2] = 2
    /\ Len(executed[2]) >= 1
    /\ Len(executed[2]) < Len(Stages(plan[2]))
    /\ rollbacks[2] = 0

-----------------------------------------------------------------------------
(* Properties of the builders and of Pipeline objects, checked under SpecBuild. *)

\* C13: optimize_pipeline never changes the pipeline it is given: the input
\* Pipeline object's source, steps list (contents and order) and sink read
\* the same after the call as before, whether or not steps were redundant.
C13_InputPipelineUnchanged ==
    \A k \in 1..Len(optimizations) :
        optimizations[k].after = optimizations[k].before

\* a call that found a step redundant and returned a pipeline without it
C13_Witness ==
    \E k \in 1..Len(optimizations) :
        /\ optimizations[k].redundant # {}
        /\ Len(optimizations[k].before.nodes) = 1
        /\ Len(Deref(heap, optimizations[k].output).nodes) = 0

\* C14: when the redundant set is empty optimize_pipeline returns the very
\* Pipeline object it was given; when it is non-empty it returns a different
\* Pipeline object.
C14_SameObjectIffNothingRedundant ==
    \A k \in 1..Len(optimizations) :
        optimizations[k].redundant = {} <=>
            optimizations[k].output = optimizations[k].input

\* a call that returned its argument, and a call that returned a new object
C14_Witness ==
    /\ Len(optimizations) = 2
    /\ optimizations[1].redundant # {}
    /\ optimizations[1].output # optimizations[1].input
    /\ optimizations[2].redundant = {}
    /\ optimizations[2].output = optimizations[2].input

\* C15: a Pipeline is immutable once built: whatever is done to the builder
\* after build returned a pipeline, that pipeline's source, steps and sink
\* read as they did when build returned it.
C15_BuiltPipelineImmutable ==
    \A k \in 1..Len(builds) :
        builds[k].raised = "" =>
            <<Deref(heap, builds[k].ref)>> = builds[k].value

\* C16: build fails with ValueError and produces no Pipeline whenever the
\* builder has no source, whatever nodes and sink it has and whatever the
\* optimization flag is; with a source set, build returns a Pipeline.
C16_BuildNeedsSource ==
    \A k \in 1..Len(builds) :
        /\ builds[k].source = <<>> =>
              /\ builds[k].raised = "ValueError"
              /\ builds[k].created = 0
              /\ builds[k].value = <<>>
        /\ builds[k].source # <<>> =>
              /\ builds[k].raised = ""
              /\ builds[k].ref \in 1..Len(heap.pipelines)
              /\ builds[k].value[1].source = builds[k].source

\* an optimizing builder with nodes and a sink whose first build failed for
\* want of a source, and whose second build, after set_source, succeeded
C16_Witness ==
    /\ builder.kind = "OptimizingPipelineBuilder"
    /\ Len(builds) = 2
    /\ builds[1].raised = "ValueError"
    /\ builds[2].raised = ""
    /\ Len(builds[2].value[1].nodes) = 1
    /\ builds[2].value[1].sink # <<>>

-----------------------------------------------------------------------------
(* Properties of graph building and of the SchemaStateManager, checked     *)
(* under SpecGraph.                                                         *)

\* a graph by what it says about schemas: the column sets of its nodes, and
\* its edges as (from schema, to schema, step id)
SchemaGraph(g) ==
    [nodes |-> {n.schema : n \in g.nodes},
     edges |-> {<<SchemaOf(g, e.u), SchemaOf(g, e.v), e.node_id>> : e \in g.edges}]

\* the graph of p told from its schema trace alone: the states visited, and
\* for every transition made the id of the last stage that made it
TraceGraph(p) ==
    LET states == SchemaTrace(p)
        signed == {k \in 1..Len(AllNodes(p)) : HasSignature(AllNodes(p)[k])}
    IN  [nodes |-> {states[k] : k \in 1..Len(states)},
         edges |-> {<<states[k], states[k + 1], AllNodes(p)[k].node_id>> :
                      k \in {i \in signed :
                               \A j \in signed :
                                   (j > i) => <<states[j], states[j + 1]>>
                                                  # <<states[i], states[i + 1]>>}}]

Injective(h) == \A s1, s2 \in DOMAIN h : h[s1] = h[s2] => s1 = s2

C18_HandleStable ==
    /\ [](\A i, j \in 1..Len(issued) :
            issued[i].schema = issued[j].schema => issued[i].name = issued[j].name)
    /\ [](\A i \in 1..Len(issued) :
            /\ issued[i].schema \in DOMAIN manager
            /\ manager[issued[i].schema] = issued[i].name)
    /\ [][\A s \in DOMAIN manager :
            s \in DOMAIN manager' /\ manager'[s] = manager[s]]_vars

\* the manager was asked for {a} twice, with a graph build in between that
\* registered other column sets
C18_Witness ==
    /\ Len(issued) = 2
    /\ issued[1].schema = {"a"}
    /\ issued[2].schema = {"a"}
    /\ issued[2].name = issued[1].name
    /\ Len(built) >= 1
    /\ Cardinality(DOMAIN manager) >= 3

\* C19: two different column sets never canonicalize to the same state
\* handle, whatever hash() is: in the manager's map and in the optimizer's
\* map equal handles belong to equal column sets.
C19_HandlesDistinguishColumnSets ==
    /\ \A s1, s2 \in DOMAIN manager : manager[s1] = manager[s2] => s1 = s2
    /\ \A s1, s2 \in DOMAIN schema_to_node_name :
          schema_to_node_name[s1] = schema_to_node_name[s2] => s1 = s2

\* the first stage of p that has a signature, 0 when none has
FirstSigned(p) ==
    IF SignatureCount(p) = 0 THEN 0
    ELSE CHOOSE k \in 1..Len(AllNodes(p)) :
            /\ HasSignature(AllNodes(p)[k])
            /\ \A j \in 1..(k - 1) : ~HasSignature(AllNodes(p)[j])

C26_WitnessFirstEdge ==
    /\ FirstSigned(pipeline) = 2
    /\ Len(built) = 2
    /\ built[1].by = "TransformationGraphBuilder"
    /\ built[2].by = "TransformationGraphBuilder"
    /\ \E e \in built[2].graph.edges : e.node_id = pipeline.nodes[1].node_id

-----------------------------------------------------------------------------
(* Properties of a reused optimizer and a reused graph builder, checked     *)
(* under SpecReuse.                                                         *)

\* the latest call that was handed a pipeline
LastHanded == handed[Len(handed)]

StageIds(p) == {AllNodes(p)[k].node_id : k \in 1..Len(AllNodes(p))}

\* C27: after any sequence of earlier calls on the same optimizer,
\* optimize_pipeline(p) leaves the graph, the canonicalization map and the
\* redundant set that a new optimizer computes for p, and returns the same
\* pipeline.
C27_EarlierCallsLeaveNoTrace ==
    (handed # <<>> /\ LastHanded.to = "optimize_pipeline") =>
        LET p == LastHanded.pipeline
            fresh == BuildTransformationGraph(FreshOptimizer, p)
            redundant == IdentifyRedundancies(fresh.graph)
        IN  /\ graph = fresh.graph
            /\ schema_to_node_name = fresh.schema_to_node_name
            /\ redundant_nodes = redundant
            /\ optimized = <<OptimizedPipeline(p, redundant)>>

\* the optimizer is called twice: first on a pipeline whose step keeps the
\* schema and is flagged, then on another pipeline whose step has the same id
\* and is not flagged
C27_Witness ==
    /\ Len(handed) = 2
    /\ handed[1].to = "optimize_pipeline"
    /\ handed[2].to = "optimize_pipeline"
    /\ Len(handed[1].pipeline.nodes) = 1
    /\ Len(handed[2].pipeline.nodes) = 1
    /\ handed[1].pipeline.nodes[1].node_id = handed[2].pipeline.nodes[1].node_id
    /\ handed[1].pipeline.nodes[1].node_id \in
          IdentifyRedundancies(
              BuildTransformationGraph(FreshOptimizer, handed[1].pipeline).graph)
    /\ HasSignature(handed[2].pipeline.nodes[1])
    /\ redundant_nodes = {}
    /\ optimized = <<handed[2].pipeline>>

\* C28: after any sequence of build_graph calls on one graph builder, the
\* graph returned for pipeline p contains only edges whose step id is the id
\* of p's source, of one of p's steps or of p's sink.
C28_OnlyEdgesOfThePipelineBuilt ==
    (handed # <<>> /\ LastHanded.to = "build_graph") =>
        \A e \in tgb_graph.edges : e.node_id \in StageIds(LastHanded.pipeline)

\* C29: graph building and optimize_pipeline return without raising for
\* every pipeline, whatever subset of its stages lacks a signature; when no
\* stage has one, the redundant set is empty and optimize_pipeline returns
\* the pipeline it was given.
C29_MissingSignaturesNeverRaise ==
    handed # <<>> =>
        LET p == LastHanded.pipeline
        IN  /\ raised = ""
            /\ LastHanded.to = "optimize_pipeline" =>
                  /\ optimized # <<>>
                  /\ SignatureCount(p) = 0 =>
                        (redundant_nodes = {} /\ Result = p)
            /\ LastHanded.to = "build_graph" =>
                  /\ built # <<>>
                  /\ built[Len(built)].graph = tgb_graph
                  /\ \E n \in tgb_graph.nodes : n.name = NodeName({})

\* a source whose inherited method raises NotImplementedError, a step of
\* another class without the method and a sink like the source: the graph
\* builder builds their graph and the optimizer returns the pipeline
C29_Witness ==
    /\ Len(handed) = 2
    /\ handed[1].to = "build_graph"
    /\ handed[2].to = "optimize_pipeline"
    /\ handed[1].pipeline = handed[2].pipeline
    /\ SignatureCount(pipeline) = 0
    /\ Len(AllNodes(pipeline)) = 3
    /\ pipeline.nodes[1].kind = "no_attribute"
    /\ pipeline.source[1].kind = "not_implemented"
    /\ raised = ""
    /\ redundant_nodes = {}
    /\ optimized = <<pipeline>>

-----------------------------------------------------------------------------
(* Properties of single node operations, checked under SpecNodes. *)

Elements(s) == {s[i] : i \in DOMAIN s}

RECURSIVE Flatten(_)
Flatten(ss) == IF ss = <<>> THEN <<>> ELSE Head(ss) \o Flatten(Tail(ss))

\* C21: ColumnRenamer.execute on a DataFrame whose columns contain every key
\* of the mapping leaves the data with the column set
\* (columns - mapping keys) \cup mapping values, which is the set its own
\* signature yields under next = (current - input_schema) \cup output_schema;
\* the new names are present, the old names that are no new name are absent,
\* and metadata['columns'] holds the resulting columns.
C21_RenamerMatchesItsSignature ==
    (/\ invoked.op = "ColumnRenamer.execute"
     /\ invoked.data.frame
     /\ DOMAIN invoked.column_mapping \subseteq Elements(invoked.data.columns)) =>
        LET before == Elements(invoked.data.columns)
            after == Elements(returned.data.columns)
            signature == ColumnRenamerSignature(invoked.column_mapping)
        IN  /\ returned.raised = ""
            /\ after = (before \ signature.input_schema) \cup signature.output_schema
            /\ after = CalculateNextState(before, signature)
            /\ after = CalculateSchemaState(before, signature)
            /\ signature.output_schema \subseteq after
            /\ (signature.input_schema \ signature.output_schema) \cap after = {}
            /\ returned.metadata["columns"] = returned.data.columns

\* columns a, b, c with a renamed to b's place and b to a's while c is not in
\* the mapping: two keys, both also new names, and a column that stays
C21_Witness ==
    /\ invoked.op = "ColumnRenamer.execute"
    /\ invoked.data.frame
    /\ invoked.data.columns = <<"a", "b", "c">>
    /\ DOMAIN invoked.column_mapping = {"a", "b"}
    /\ invoked.column_mapping["a"] = "b"
    /\ invoked.column_mapping["b"] = "a"
    /\ returned.data.columns = <<"b", "a", "c">>
    /\ returned.metadata["columns"] = <<"b", "a", "c">>

\* C22: SQLAlchemySink.execute on n rows with batch size b >= 1 and a session
\* issues exactly ceil(n / b) bulk inserts, in row order and covering every
\* row exactly once, every batch with b rows except a last batch of n mod b
\* rows when b does not divide n; with n = 0 it issues none; and it sets
\* metadata['processed_rows'] to n.
C22_BatchesCoverRowsOnce ==
    (/\ invoked.op = "SQLAlchemySink.execute"
     /\ invoked.has_session
     /\ invoked.batch_size >= 1) =>
        LET n == Len(invoked.rows)
            b == invoked.batch_size
            inserts == returned.inserts
        IN  /\ returned.raised = ""
            /\ Len(inserts) = (n + b - 1) \div b
            /\ Flatten(inserts) = invoked.rows
            /\ \A k \in 1..Len(inserts) :
                  Len(inserts[k]) =
                      IF k < Len(inserts) \/ n % b = 0 THEN b ELSE n % b
            /\ n = 0 => inserts = <<>>
            /\ returned.metadata["processed_rows"] = n

\* five rows in batches of two: two full batches and a last batch of one row
C22_Witness ==
    /\ invoked.op = "SQLAlchemySink.execute"
    /\ invoked.has_session
    /\ invoked.batch_size = 2
    /\ Len(invoked.rows) = 5
    /\ returned.inserts = <<<<1, 2>>, <<3, 4>>, <<5>>>>
    /\ returned.metadata["processed_rows"] = 5

\* C25: calculate_next_state(current, signature) returns exactly
\* (current - signature.input_schema) \cup signature.output_schema and leaves
\* current as it was: every column named in neither schema is kept, every
\* output column is present, and an input column that is no output column is
\* absent.  _calculate_schema_state of the optimizer returns the same set.
C25_NextStateFormula ==
    invoked.op = "calculate_next_state" =>
        LET current == invoked.current_schema
            signature == invoked.signature
            value == returned.value
        IN  /\ returned.raised = ""
            /\ value = (current \ signature.input_schema) \cup signature.output_schema
            /\ value = CalculateSchemaState(current, signature)
            /\ returned.current_schema = current
            /\ \A c \in current :
                  (c \notin signature.input_schema /\ c \notin signature.output_schema)
                      => c \in value
            /\ signature.output_schema \subseteq value
            /\ \A c \in signature.input_schema :
                  c \notin signature.output_schema => c \notin value
            /\ value \subseteq current \cup signature.output_schema

\* current {a, b}, a consumed and not emitted again, c emitted, b untouched
C25_Witness ==
    /\ invoked.op = "calculate_next_state"
    /\ invoked.current_schema = {"a", "b"}
    /\ invoked.signature = [input_schema |-> {"a"}, output_schema |-> {"c"}]
    /\ returned.value = {"b", "c"}
    /\ returned.current_schema = {"a", "b"}

====
